---- MODULE Spec2Model ----
(***************************************************************************)
(* Model of the phase-timeline layout engine of the project-management     *)
(* application (frontend/src/utils/dateFormat.ts) and of the component     *)
(* that composes it (components/PhaseGanttTimeline/index.tsx).             *)
(*                                                                         *)
(* Dates.  The phases table stores start_date / end_date in `date` columns *)
(* and the validators accept only YYYY-MM-DD strings, so a date field is a *)
(* day number >= 0, NULL (null) or BAD (a string new Date() turns into an  *)
(* Invalid Date).  A Date object is its instant, getTime(), counted in     *)
(* hours: new Date("YYYY-MM-DD") is UTC midnight of that day.  A parsed    *)
(* date is an instant or NULL.                                             *)
(*                                                                         *)
(* Local time.  setDate / getDate work on the local calendar of the        *)
(* browser; the time zone is a UTC offset that may change once (a          *)
(* daylight-saving transition).                                            *)
(*                                                                         *)
(* Null.  An object that may be null (metrics, a position) is a record,    *)
(* and NullResult stands for null.                                         *)
(*                                                                         *)
(* Numbers.  Percentages are exact rationals [n, d] with d > 0.            *)
(*                                                                         *)
(* Backend.  The REST controllers (controllers/projects.controller.ts) run *)
(* against the projects and phases tables; a handler is a sequence of      *)
(* awaited queries, and the handlers of concurrent requests interleave at  *)
(* the awaits.  Row ids are fresh (defaultRandom uuids): numbers handed    *)
(* out in turn and never reused; id 0 is an id no row ever has.            *)
(***************************************************************************)
EXTENDS Integers, Sequences, FiniteSets, TLC

\* ------------------------------------------------------------------ bounds
MaxPhases == 3
MaxDay == 1
FarDay == 340
\* phases per list when the axis (today marker, month markers) is computed
MaxAxisPhases == 2
\* rows the projects table and the phases table ever hold, requests in
\* flight at a time, requests received in a run
MaxProjects == 2
MaxStoredPhases == 2
MaxInFlight == 2
MaxRequests == 2
\* runs of the seed script
MaxSeedRuns == 3

\* ------------------------------------------------------- program constants
HoursPerDay == 24
PaddingDays == 7
MinDurationDays == 1
MinWidthPercent == 2
DefaultContainerWidth == 1000
LANE_HEIGHT == 60
BarInset == 8

\* ------------------------------------------------------------------ values
NULL == -1
BAD == -2
NullResult == [null |-> TRUE]
NotCalled == [called |-> FALSE]

Days == (0..MaxDay) \cup {FarDay}
DateValues == {NULL, BAD} \cup Days

\* exact rationals
Rat(n, d) == [n |-> n, d |-> d]
RatLt(a, b) == IF a.d = b.d THEN a.n < b.n ELSE a.n * b.d < b.n * a.d
RatLeq(a, b) == IF a.d = b.d THEN a.n <= b.n ELSE a.n * b.d <= b.n * a.d
RatEq(a, b) == IF a.d = b.d THEN a.n = b.n ELSE a.n * b.d = b.n * a.d
RatAdd(a, b) ==
  IF a.d = b.d THEN Rat(a.n + b.n, a.d)
  ELSE IF b.d = 1 THEN Rat(a.n + b.n * a.d, a.d)
  ELSE IF a.d = 1 THEN Rat(a.n * b.d + b.n, b.d)
  ELSE Rat(a.n * b.d + b.n * a.d, a.d * b.d)
\* Math.max on numbers
RatMax(a, b) == IF RatLt(a, b) THEN b ELSE a
IntMax(a, b) == IF a < b THEN b ELSE a

VARIABLES
  phases,           \* the caller's phase list (the component's `phases` prop)
  containerWidth,   \* the component's containerWidth state
  timeZone,         \* the local time zone of the browser
  metrics,          \* result of the last calculateTimelineMetrics(phases, containerWidth)
  laneAssignments,  \* result of the last assignPhasesToLanes(phases)
  position,         \* [index, value]: result of the last calculatePhasePosition(phases[index], metrics)
  view,             \* what the last render of PhaseGanttTimeline produced
  todayPosition,    \* [now, value]: result of the last getTodayPosition(metrics), called at instant now
  monthMarkers,     \* [pc, current, markers]: the loop of generateMonthMarkers
  projects,         \* the projects table: id -> row
  dbPhases,         \* the phases table: id -> row
  allocated,        \* how many project ids and phase ids the database has handed out
  inflight,         \* slot -> the request a handler is working on, and where it stands
  received,         \* number of requests received so far
  lastResponse,     \* the response sent last
  pipeline,         \* a request on its way through the handlers of its route
  seed              \* the seed script: where a run stands, the runs so far

timelineVars == <<phases, containerWidth, timeZone, metrics, laneAssignments, position, view>>
axisVars == <<todayPosition, monthMarkers>>
backendVars == <<projects, dbPhases, allocated, inflight, received, lastResponse>>
middlewareVars == <<pipeline>>
seedVars == <<seed>>
vars == <<timelineVars, axisVars, backendVars, middlewareVars, seedVars>>

\* ------------------------------------------------------------ date helpers
\* Math.ceil(n / d) for d > 0
Ceil(n, d) == - ((- n) \div d)

\* daysBetween: Math.ceil((endMs - startMs) / msPerDay)
daysBetween(start, end) == Ceil(end - start, HoursPerDay)

\* new Date("YYYY-MM-DD"): a date-only string is UTC midnight of that day
dateOf(day) == day * HoursPerDay

\* parseDate: null for null / empty, null for an Invalid Date, the date otherwise
parseDate(dateString) ==
  IF dateString = NULL THEN NULL
  ELSE IF dateString = BAD THEN NULL
  ELSE dateOf(dateString)

\* Time zones: the offset of local time from UTC is `before` up to the
\* instant changeAt and `after` from then on.
UTCZone == [before |-> 0, after |-> 0, changeAt |-> 0]
\* clocks go back one hour (UTC-4 to UTC-5) at 06:00 UTC of day -3, that is
\* between the 7th and the 1st day before the first days of the model
FallBackZone == [before |-> -4, after |-> -5, changeAt |-> dateOf(0 - 3) + 6]
TimeZones == {UTCZone, FallBackZone}

\* LocalTime(t): the local wall-clock reading at instant t
LocalTime(tz, t) == t + (IF t < tz.changeAt THEN tz.before ELSE tz.after)
\* UTC(local): the instant at which the local wall clock reads `local`
UTC(tz, local) ==
  IF local - tz.before < tz.changeAt THEN local - tz.before ELSE local - tz.after
\* d.setDate(d.getDate() + n): the same local time of day, n calendar days later
addLocalDays(tz, t, n) == UTC(tz, LocalTime(tz, t) + n * HoursPerDay)

datesOverlap(start1, end1, start2, end2) == start1 <= end2 /\ start2 <= end1

\* (mutant) the filter forgets the start <= end test
hasValidDates_NoOrderTest(phase) ==
  parseDate(phase.startDate) # NULL /\ parseDate(phase.endDate) # NULL

\* the predicate of filterPhasesWithDates
hasValidDates(phase) ==
  LET start == parseDate(phase.startDate)
      end == parseDate(phase.endDate)
  IN start # NULL /\ end # NULL /\ start <= end

\* (mutant) the list is used unfiltered
filterPhasesWithDates_Unfiltered(ps) == ps

filterPhasesWithDates(ps) == SelectSeq(ps, hasValidDates)

\* ------------------------------------------------- timeline metrics
\* the forEach of calculateTimelineMetrics: running minimum start / maximum end
RECURSIVE scanMinMax(_, _, _, _)
scanMinMax(ps, i, minDate, maxDate) ==
  IF i > Len(ps) THEN [minDate |-> minDate, maxDate |-> maxDate]
  ELSE
    LET start == parseDate(ps[i].startDate)
        end == parseDate(ps[i].endDate)
        min2 == IF start # NULL /\ (minDate = NULL \/ start < minDate) THEN start ELSE minDate
        max2 == IF end # NULL /\ (maxDate = NULL \/ end > maxDate) THEN end ELSE maxDate
    IN scanMinMax(ps, i + 1, min2, max2)

\* paddedStart.setDate(getDate() - 7) / paddedEnd.setDate(getDate() + 7)
padStart(tz, minDate) == addLocalDays(tz, minDate, 0 - PaddingDays)
padEnd(tz, maxDate) == addLocalDays(tz, maxDate, PaddingDays)

calculateTimelineMetrics(ps, width, tz) ==
  LET phasesWithDates == filterPhasesWithDates(ps) IN
  IF Len(phasesWithDates) = 0 THEN NullResult
  ELSE
    LET mm == scanMinMax(phasesWithDates, 1, NULL, NULL) IN
    IF mm.minDate = NULL \/ mm.maxDate = NULL THEN NullResult
    ELSE
      LET paddedStart == padStart(tz, mm.minDate)
          paddedEnd == padEnd(tz, mm.maxDate)
          totalDays == daysBetween(paddedStart, paddedEnd)
      IN [ startDate |-> paddedStart,
           endDate |-> paddedEnd,
           totalDays |-> totalDays,
           pixelsPerDay |-> Rat(width, totalDays),
           containerWidth |-> width ]

\* --------------------------------------------------- phase position
\* (mutant) the duration is not clamped to the 1-day minimum
phaseDuration_Unclamped(start, end) == daysBetween(start, end)

\* Math.max(daysBetween(start, end), 1)
phaseDuration(start, end) == IntMax(daysBetween(start, end), MinDurationDays)

\* (mutant) the width is not clamped to the 2% minimum
clampWidth_Unclamped(widthPercent) == widthPercent

\* Math.max(widthPercent, 2)
clampWidth(widthPercent) == RatMax(widthPercent, Rat(MinWidthPercent, 1))

\* (mutant) the left edge is laid out in pixels: startOffset * pixelsPerDay
calculatePhasePosition_Pixels(phase, m) ==
  LET start == parseDate(phase.startDate)
      end == parseDate(phase.endDate)
  IN
  IF start = NULL \/ end = NULL THEN NullResult
  ELSE
    LET startOffset == daysBetween(m.startDate, start)
        duration == phaseDuration(start, end)
        leftPixels == Rat(startOffset * m.pixelsPerDay.n, m.pixelsPerDay.d)
        widthPercent == Rat(duration * 100, m.totalDays)
    IN [ left |-> leftPixels,
         width |-> clampWidth(widthPercent),
         leftPercent |-> leftPixels,
         widthPercent |-> clampWidth(widthPercent),
         lane |-> 0 ]

calculatePhasePosition(phase, m) ==
  LET start == parseDate(phase.startDate)
      end == parseDate(phase.endDate)
  IN
  IF start = NULL \/ end = NULL THEN NullResult
  ELSE
    LET startOffset == daysBetween(m.startDate, start)
        duration == phaseDuration(start, end)
        leftPercent == Rat(startOffset * 100, m.totalDays)
        widthPercent == Rat(duration * 100, m.totalDays)
    IN [ left |-> leftPercent,
         width |-> clampWidth(widthPercent),
         leftPercent |-> leftPercent,
         widthPercent |-> clampWidth(widthPercent),
         lane |-> 0 ]

\* --------------------------------------------------- lane assignment
\* [...phasesWithDates].sort(by start): Array.prototype.sort is stable, so it
\* is an insertion behind every element whose start is not later.
\* (mutant) a sort that puts a phase before the phases of the same start
RECURSIVE insertByStart_TiesFirst(_, _)
insertByStart_TiesFirst(sorted, phase) ==
  IF sorted = <<>> THEN <<phase>>
  ELSE IF parseDate(phase.startDate) - parseDate(Head(sorted).startDate) <= 0
       THEN <<phase>> \o sorted
       ELSE <<Head(sorted)>> \o insertByStart_TiesFirst(Tail(sorted), phase)

RECURSIVE insertByStart(_, _)
insertByStart(sorted, phase) ==
  IF sorted = <<>> THEN <<phase>>
  ELSE IF parseDate(phase.startDate) - parseDate(Head(sorted).startDate) < 0
       THEN <<phase>> \o sorted
       ELSE <<Head(sorted)>> \o insertByStart(Tail(sorted), phase)

\* (mutant) the phases are processed in input order
sortByStartDate_Unsorted(ps) == ps

RECURSIVE sortByStartDate(_)
sortByStartDate(ps) ==
  IF ps = <<>> THEN <<>>
  ELSE insertByStart(sortByStartDate(SubSeq(ps, 1, Len(ps) - 1)), ps[Len(ps)])

\* (mutant) a lane counts as free on the very day its last phase ends
laneIsFree_OnEndDay(start, occupiedUntil) == start >= occupiedUntil

\* the test of the inner for loop: start > laneOccupancy[i]
laneIsFree(start, occupiedUntil) == start > occupiedUntil

\* (mutant) a search that never finds a free lane
findLane_None(start, laneOccupancy, i) == -1

\* the inner for loop: the first lane (0-indexed) that is free, -1 if none
RECURSIVE findLane(_, _, _)
findLane(start, laneOccupancy, i) ==
  IF i >= Len(laneOccupancy) THEN -1
  ELSE IF laneIsFree(start, laneOccupancy[i + 1]) THEN i
  ELSE findLane(start, laneOccupancy, i + 1)

\* (mutant) the lane is marked occupied until the phase's start, not its end
occupyUntil_Start(start, end) == start

\* what a placed phase writes into laneOccupancy
occupyUntil(start, end) == end

\* the body of sortedPhases.forEach, from phase k on
RECURSIVE assignLoop(_, _, _, _)
assignLoop(sortedPhases, k, laneOccupancy, assignments) ==
  IF k > Len(sortedPhases) THEN assignments
  ELSE
    LET phase == sortedPhases[k]
        start == parseDate(phase.startDate)
        end == parseDate(phase.endDate)
        found == findLane(start, laneOccupancy, 0)
        assignedLane == IF found = -1 THEN Len(laneOccupancy) ELSE found
        occupancy2 ==
          IF found = -1 THEN Append(laneOccupancy, occupyUntil(start, end))
          ELSE [laneOccupancy EXCEPT ![found + 1] = occupyUntil(start, end)]
    IN assignLoop(sortedPhases, k + 1, occupancy2, (phase.id :> assignedLane) @@ assignments)

\* the returned Map is [map |-> f], f a function whose domain is the key set
assignPhasesToLanes(ps) ==
  LET phasesWithDates == filterPhasesWithDates(ps)
      sortedPhases == sortByStartDate(phasesWithDates)
  IN [map |-> assignLoop(sortedPhases, 1, <<>>, <<>>)]

\* ------------------------------------------- PhaseGanttTimeline (render)
\* (mutant) the lanes in use are not counted
maxOf_Floor(S, floor) == floor

\* Math.max(...values, 0)
RECURSIVE maxOf(_, _)
maxOf(S, floor) ==
  IF S = {} THEN floor
  ELSE LET v == CHOOSE v \in S : TRUE IN maxOf(S \ {v}, IntMax(v, floor))

idsOf(ps) == {ps[i].id : i \in 1..Len(ps)}

\* a filter that keeps every phase
withoutDates_All(ps, phasesWithDates) == ps

\* phases.filter(phase => !phasesWithDates.find(p => p.id === phase.id))
withoutDates(ps, phasesWithDates) ==
  LET found == idsOf(phasesWithDates)
      notFound(phase) == phase.id \notin found
  IN SelectSeq(ps, notFound)

\* phasesWithDates.map(calculatePhasePosition + lane).filter(item !== null)
phaseBars(phasesWithDates, m, lanes) ==
  LET item(phase) ==
        LET pos == calculatePhasePosition(phase, m) IN
        IF pos = NullResult THEN NullResult
        ELSE [ phase |-> phase,
               position |-> [pos EXCEPT !.lane =
                  IF phase.id \in DOMAIN lanes.map THEN lanes.map[phase.id] ELSE 0] ]
      items == [i \in 1..Len(phasesWithDates) |-> item(phasesWithDates[i])]
      notNull(it) == it # NullResult
  IN SelectSeq(items, notNull)

\* PhaseBar: top = position.lane * laneHeight, height = laneHeight - 8
barTop(bar) == bar.position.lane * LANE_HEIGHT
barHeight(bar) == LANE_HEIGHT - BarInset

PhaseGanttTimeline(ps, width, tz) ==
  LET phasesWithDates == filterPhasesWithDates(ps)
      phasesWithoutDates == withoutDates(ps, phasesWithDates)
      m == calculateTimelineMetrics(phasesWithDates, width, tz)
  IN
  IF m = NullResult \/ Len(phasesWithDates) = 0
  THEN [ kind |-> "No Timeline Data",
         bars |-> <<>>,
         phasesWithoutDates |-> phasesWithoutDates,
         timelineHeight |-> 0 ]
  ELSE
    LET lanes == assignPhasesToLanes(phasesWithDates)
        maxLane == maxOf({lanes.map[k] : k \in DOMAIN lanes.map}, 0)
    IN [ kind |-> "Timeline",
         bars |-> phaseBars(phasesWithDates, m, lanes),
         phasesWithoutDates |-> phasesWithoutDates,
         timelineHeight |-> (maxLane + 1) * LANE_HEIGHT ]

\* ------------------------------------------------ axis: today and months
\* The local calendar: day 0 of the model is 2025-11-05; starts[k] is the day
\* number of the first day of month k, month 1 being October 2025 and the
\* last one December 2026.
MonthStarts == <<-35, -4, 26, 57, 88, 116, 147, 177, 208, 238, 269, 300, 330, 361, 391>>

\* getFullYear() and getMonth() of a local wall-clock reading, as a month number
RECURSIVE monthOf(_, _)
monthOf(local, k) ==
  IF k >= Len(MonthStarts) THEN k
  ELSE IF local < dateOf(MonthStarts[k + 1]) THEN k
  ELSE monthOf(local, k + 1)
getMonth(tz, t) == monthOf(LocalTime(tz, t), 1)

\* (mutant) the loop starts at startDate itself
firstOfMonth_Unaligned(tz, startDate) == startDate

\* new Date(startDate.getFullYear(), startDate.getMonth(), 1): local midnight
\* of the first day of the month startDate lies in
firstOfMonth(tz, startDate) == UTC(tz, dateOf(MonthStarts[getMonth(tz, startDate)]))

\* current.setMonth(current.getMonth() + 1): the same day of the month and
\* local time of day one month on, days past the end of the month running on
\* into the month after
nextMonth(tz, current) ==
  LET local == LocalTime(tz, current)
      k == monthOf(local, 1)
  IN UTC(tz, dateOf(MonthStarts[k + 1]) + (local - dateOf(MonthStarts[k])))

\* one marker of generateMonthMarkers; the label "Jan 2025" is the month number
monthMarker(tz, current, m) ==
  [ date |-> current,
    label |-> getMonth(tz, current),
    position |-> Rat(daysBetween(m.startDate, current) * 100, m.totalDays) ]

\* (mutant) today keeps its time of day
startOfDay_Now(tz, now) == now

\* today.setHours(0, 0, 0, 0): local midnight of the local day of `now`
startOfDay(tz, now) == UTC(tz, (LocalTime(tz, now) \div HoursPerDay) * HoursPerDay)

\* getTodayPosition(metrics), new Date() reading the instant `now`
getTodayPosition(m, now, tz) ==
  LET today == startOfDay(tz, now) IN
  IF today < m.startDate \/ today > m.endDate THEN NullResult
  ELSE LET offset == daysBetween(m.startDate, today)
       IN [percent |-> Rat(offset * 100, m.totalDays)]

\* ------------------------------------------------- backend: tables, queries
\* a field the request body does not carry (undefined)
UNDEF == -3
\* an id no row ever has
UnknownId == 0
Titles == {"a", "b"}

NoProject == [exists |-> FALSE, title |-> ""]
NoPhase == [startDate |-> NULL, endDate |-> NULL, exists |-> FALSE, projectId |-> UnknownId, order |-> 0]
ProjectRow(title) == [exists |-> TRUE, title |-> title]
PhaseRow(projectId, startDate, endDate, order) ==
  [startDate |-> startDate, endDate |-> endDate, exists |-> TRUE, projectId |-> projectId, order |-> order]

\* (mutant) every id is taken to exist
projectExists_Always(ps, projectId) == TRUE

\* select id from projects where id = projectId limit 1
projectExists(ps, projectId) == projectId \in DOMAIN ps /\ ps[projectId].exists

\* (mutant) the project id is left out of the where clause
getPhaseByIdAndProjectId_AnyProject(phs, phaseId, projectId) ==
  IF phaseId \in DOMAIN phs /\ phs[phaseId].exists THEN phs[phaseId] ELSE NullResult

\* select from phases where id = phaseId and project_id = projectId limit 1
getPhaseByIdAndProjectId(phs, phaseId, projectId) ==
  IF phaseId \in DOMAIN phs /\ phs[phaseId].exists /\ phs[phaseId].projectId = projectId
  THEN phs[phaseId] ELSE NullResult

\* the orders of the phases getPhasesByProjectId(projectId) returns
ordersOf(phs, projectId) ==
  {phs[p].order : p \in {q \in DOMAIN phs : phs[q].exists /\ phs[q].projectId = projectId}}

\* (mutant) the order is stored as the caller gave it
orderToStore_AsGiven(order, existingOrders) == order

\* createPhase: the order the row is inserted with, given the orders read
orderToStore(order, existingOrders) ==
  IF order = UNDEF \/ order = 0
  THEN (IF existingOrders # {}
        THEN (CHOOSE m \in existingOrders : \A o \in existingOrders : o <= m) + 1
        ELSE 1)
  ELSE order

\* (mutant) the phases table has no foreign key
foreignKeyHolds_Unchecked(ps, projectId) == TRUE

\* phases.project_id references projects.id: an insert naming no stored project fails
foreignKeyHolds(ps, projectId) == projectExists(ps, projectId)

\* a column the insert gives no value, or null, holds null
columnValue(v) == IF v = UNDEF THEN NULL ELSE v

createProjectQuery(ps, id, data) == [ps EXCEPT ![id] = ProjectRow(data.title)]

\* update projects set ... where id = projectId
updateProjectQuery(ps, projectId, data) ==
  IF projectExists(ps, projectId) THEN [ps EXCEPT ![projectId].title = data.title] ELSE ps

\* delete from projects where id = projectId
deleteProjectQuery(ps, projectId) ==
  IF projectExists(ps, projectId) THEN [ps EXCEPT ![projectId] = NoProject] ELSE ps

\* on delete cascade: the phases of a deleted project go with it
cascade(phs, projectId) ==
  [p \in DOMAIN phs |-> IF phs[p].exists /\ phs[p].projectId = projectId THEN NoPhase ELSE phs[p]]

\* insert into phases values {...data, order}
insertPhase(phs, id, projectId, data, order) ==
  [phs EXCEPT ![id] = PhaseRow(projectId, columnValue(data.startDate), columnValue(data.endDate), order)]

\* update phases set {...data} where id = phaseId: undefined fields stay as they are
updatePhaseQuery(phs, phaseId, data) ==
  IF phaseId \in DOMAIN phs /\ phs[phaseId].exists
  THEN [phs EXCEPT ![phaseId] =
          [ @ EXCEPT !.startDate = IF data.startDate = UNDEF THEN @ ELSE data.startDate,
                     !.endDate = IF data.endDate = UNDEF THEN @ ELSE data.endDate,
                     !.order = IF data.order = UNDEF THEN @ ELSE data.order ]]
  ELSE phs

\* delete from phases where id = phaseId
deletePhaseQuery(phs, phaseId) ==
  IF phaseId \in DOMAIN phs /\ phs[phaseId].exists THEN [phs EXCEPT ![phaseId] = NoPhase] ELSE phs

\* ------------------------------------------------------ backend: validators
\* optional, nullable, YYYY-MM-DD and a date Date.parse accepts
validDateField(v) == v = UNDEF \/ v = NULL \/ v >= 0

\* createPhaseSchema: the fields, then the cross-field test
\* new Date(endDate) >= new Date(startDate) when both dates are given
createPhaseSchema(body) ==
  /\ validDateField(body.startDate)
  /\ validDateField(body.endDate)
  /\ body.order # UNDEF /\ body.order >= 0
  /\ (body.startDate >= 0 /\ body.endDate >= 0) => dateOf(body.endDate) >= dateOf(body.startDate)

\* updatePhaseSchema: the fields only
updatePhaseSchema(body) ==
  /\ validDateField(body.startDate)
  /\ validDateField(body.endDate)
  /\ body.order = UNDEF \/ body.order >= 0

\* ------------------------------------------------------- backend: requests
Idle == [id |-> UnknownId, kind |-> "idle", order |-> 0, phaseId |-> UnknownId,
         body |-> [startDate |-> UNDEF, endDate |-> UNDEF, title |-> "", order |-> UNDEF],
         pc |-> "idle"]
NoResponse == [status |-> 0, error |-> ""]
Request(kind, id, phaseId, body) ==
  [id |-> id, kind |-> kind, order |-> 0, phaseId |-> phaseId, body |-> body, pc |-> "start"]
Response(status, error) == [status |-> status, error |-> error]
NoBody == Idle.body
ProjectBody(title) == [NoBody EXCEPT !.title = title]
PhaseBody(startDate, endDate, order) ==
  [NoBody EXCEPT !.startDate = startDate, !.endDate = endDate, !.order = order]

\* the database and the server before any request: empty tables
BackendIdle ==
  /\ projects = [id \in 1..MaxProjects |-> NoProject]
  /\ dbPhases = [id \in 1..MaxStoredPhases |-> NoPhase]
  /\ allocated = [phases |-> 0, projects |-> 0]
  /\ inflight = [s \in 1..MaxInFlight |-> Idle]
  /\ received = 0
  /\ lastResponse = NoResponse

\* ------------------------------------------------- backend: middleware
\* Errors: an ApiError carries a statusCode, a plain Error does not (0)
NoError == [name |-> "", statusCode |-> 0, message |-> "", details |-> {}]
BadRequestError(message, details) ==
  [name |-> "BadRequestError", statusCode |-> 400, message |-> message, details |-> details]
NotFoundError(message) ==
  [name |-> "NotFoundError", statusCode |-> 404, message |-> message, details |-> {}]
PlainError(message) == [name |-> "Error", statusCode |-> 0, message |-> message, details |-> {}]
IsApiError(err) == err.name \in {"BadRequestError", "NotFoundError"}

\* what schema.parseAsync({body, query, params}) does with a request: it
\* resolves, it rejects with a ZodError (a set of issues) or with another error
ZodIssue(path, message) == [message |-> message, path |-> path]
Accepts == [kind |-> "accepts", error |-> NoError, issues |-> {}]
ZodErrorOf(issues) == [kind |-> "zodError", error |-> NoError, issues |-> issues]
OtherErrorOf(err) == [kind |-> "otherError", error |-> err, issues |-> {}]
IssueSets ==
  { {ZodIssue(<<"params", "id">>, "Invalid project ID format")},
    {ZodIssue(<<"body", "name">>, "Phase name is required"),
     ZodIssue(<<"body", "order">>, "Order must be non-negative")} }
ParseResults ==
  {Accepts, OtherErrorOf(PlainError("parse failed"))} \cup {ZodErrorOf(is) : is \in IssueSets}

\* err.path.slice(1).join('.')
RECURSIVE join(_)
join(path) == IF Len(path) = 1 THEN path[1] ELSE path[1] \o "." \o join(Tail(path))
fieldOf(issue) == join(Tail(issue.path))

\* the details object: details[path] = err.message for every issue
detailsOf(issues) == {[message |-> i.message, field |-> fieldOf(i)] : i \in issues}

\* (mutant) next() is called whatever the schema says; in a sequence of
\* calls of next NoError stands for next() with no argument
validateRequestMiddleware_NextAlways(parse) ==
  CASE parse.kind = "accepts" -> [nextCalls |-> <<NoError>>, thrown |-> NoError]
    [] parse.kind = "zodError" ->
         [ nextCalls |-> <<NoError>>,
           thrown |-> BadRequestError("Validation failed", detailsOf(parse.issues)) ]
    [] OTHER -> [nextCalls |-> <<NoError, parse.error>>, thrown |-> NoError]

\* the middleware validateRequest(schema) returns: the calls of next it makes
\* and the error it throws (its promise rejects with)
validateRequestMiddleware(parse) ==
  CASE parse.kind = "accepts" -> [nextCalls |-> <<NoError>>, thrown |-> NoError]
    [] parse.kind = "zodError" ->
         [ nextCalls |-> <<>>,
           thrown |-> BadRequestError("Validation failed", detailsOf(parse.issues)) ]
    [] OTHER -> [nextCalls |-> <<parse.error>>, thrown |-> NoError]

\* how the promise of a controller settles
Resolves == [kind |-> "resolves", reason |-> NoError]
Rejects(reason) == [kind |-> "rejects", reason |-> reason]
Settlements ==
  { Resolves,
    Rejects(NotFoundError("Project not found")),
    Rejects(NotFoundError("Phase not found")),
    Rejects(PlainError("connection lost")) }

\* (mutant) Promise.resolve(fn(req, res, next)).then(next, next)
asyncHandler_Then(settled) == <<settled.reason>>

\* asyncHandler: Promise.resolve(fn(req, res, next)).catch(next), the calls of
\* next it makes
asyncHandler(settled) == IF settled.kind = "rejects" THEN <<settled.reason>> ELSE <<>>

\* errorHandler: the status of the response
errorHandler(err) == IF IsApiError(err) THEN err.statusCode ELSE 500

\* the routes of the router and the ones with a validateRequest in front
Routes ==
  { "getAllProjects", "getProjectById", "createProject", "updateProject",
    "deleteProject", "addPhase", "updatePhase", "deletePhase" }
Validated(route) == route # "getAllProjects"

\* the router after a handler returned: a rejected promise or next(err)
\* goes to the error handler, next() to the handler that follows, and
\* without a call of next nothing more runs
errorOf(nextCalls, thrown) ==
  IF thrown # NoError THEN thrown
  ELSE IF nextCalls # <<>> /\ nextCalls[1] # NoError THEN nextCalls[1]
  ELSE NoError
afterHandler(nextCalls, thrown, following) ==
  IF errorOf(nextCalls, thrown) # NoError THEN "error"
  ELSE IF nextCalls = <<>> THEN "done"
  ELSE following

PipelineIdle ==
  [ pc |-> "idle", status |-> 0, error |-> NoError, parse |-> Accepts,
    thrown |-> NoError, settled |-> [kind |-> "", reason |-> NoError], route |-> "",
    validateNext |-> <<>>, controllerRuns |-> 0, handlerNext |-> <<>> ]
MiddlewareIdle == pipeline = PipelineIdle

\* ------------------------------------------------------ backend: seed script
\* the seed data: seedProjects[i] has the phases seedPhases[i], orders 1..n
seedProjects == <<"Website Redesign", "Mobile App Development">>
seedPhases == <<2, 1>>
SeedPhaseCount == seedPhases[1] + seedPhases[2]
SeedScriptIdle == [i |-> 0, projectId |-> UnknownId, pc |-> "idle", j |-> 0, runs |-> 0, exits |-> 0]
SeedIdle == seed = SeedScriptIdle

\* (mutant) the check for stored projects finds nothing
existingProjects_None(ps) == {}

\* db.select().from(projects).limit(1): a stored project, if there is one
existingProjects(ps) ==
  IF \E id \in DOMAIN ps : ps[id].exists
  THEN {CHOOSE id \in DOMAIN ps : ps[id].exists}
  ELSE {}

\* ------------------------------------------------------------ state machine
\* generateMonthMarkers has not been called
IdleMarkers == [current |-> 0, pc |-> "idle", markers |-> <<>>]

PhaseOf(i, dates) == [startDate |-> dates[1], endDate |-> dates[2], id |-> i]

Init ==
  /\ \E n \in 0..MaxPhases :
       \E dates \in [1..n -> DateValues \X DateValues] :
         phases = [i \in 1..n |-> PhaseOf(i, dates[i])]
  /\ containerWidth = DefaultContainerWidth
  /\ timeZone \in TimeZones
  /\ metrics = NotCalled
  /\ laneAssignments = NotCalled
  /\ position = NotCalled
  /\ view = NotCalled
  /\ todayPosition = NotCalled
  /\ monthMarkers = IdleMarkers
  /\ BackendIdle
  /\ MiddlewareIdle
  /\ SeedIdle

\* a caller computes the metrics of the list
CalculateTimelineMetrics ==
  /\ metrics' = calculateTimelineMetrics(phases, containerWidth, timeZone)
  /\ UNCHANGED <<phases, containerWidth, timeZone, laneAssignments, position, view, axisVars, backendVars, middlewareVars, seedVars>>

\* a caller positions phase i of the list against the metrics it computed
CalculatePhasePosition(i) ==
  /\ metrics # NotCalled
  /\ metrics # NullResult
  /\ position' = [value |-> calculatePhasePosition(phases[i], metrics), index |-> i]
  /\ UNCHANGED <<phases, containerWidth, timeZone, metrics, laneAssignments, view, axisVars, backendVars, middlewareVars, seedVars>>

\* a caller assigns the lanes of the list
AssignPhasesToLanes ==
  /\ laneAssignments' = assignPhasesToLanes(phases)
  /\ UNCHANGED <<phases, containerWidth, timeZone, metrics, position, view, axisVars, backendVars, middlewareVars, seedVars>>

\* the component renders the list
Render ==
  /\ view' = PhaseGanttTimeline(phases, containerWidth, timeZone)
  /\ UNCHANGED <<phases, containerWidth, timeZone, metrics, laneAssignments, position, axisVars, backendVars, middlewareVars, seedVars>>

Next ==
  \/ CalculateTimelineMetrics
  \/ \E i \in 1..Len(phases) : CalculatePhasePosition(i)
  \/ AssignPhasesToLanes
  \/ Render

Spec == Init /\ [][Next]_vars

\* ---- the axis of the timeline: today marker and month markers
Nows ==
  { dateOf(0 - 8) + 12, dateOf(0 - 7) + 2, dateOf(0) + 12,
    dateOf(MaxDay + 7) + 2, dateOf(MaxDay + 8) + 12, dateOf(FarDay + 7) - 2 }

InitAxis ==
  /\ \E n \in 0..MaxAxisPhases :
       \E dates \in [1..n -> DateValues \X DateValues] :
         phases = [i \in 1..n |-> PhaseOf(i, dates[i])]
  /\ containerWidth = DefaultContainerWidth
  /\ timeZone \in TimeZones
  /\ metrics = NotCalled
  /\ laneAssignments = NotCalled
  /\ position = NotCalled
  /\ view = NotCalled
  /\ todayPosition = NotCalled
  /\ monthMarkers = IdleMarkers
  /\ BackendIdle
  /\ MiddlewareIdle
  /\ SeedIdle

\* the component asks for the today marker at instant `now`
GetTodayPosition(now) ==
  /\ metrics # NotCalled
  /\ metrics # NullResult
  /\ todayPosition' = [now |-> now, value |-> getTodayPosition(metrics, now, timeZone)]
  /\ UNCHANGED <<timelineVars, monthMarkers, backendVars, middlewareVars, seedVars>>

\* TimelineGrid calls generateMonthMarkers(metrics.startDate, metrics.endDate, metrics)
GenerateMonthMarkers ==
  /\ metrics # NotCalled
  /\ metrics # NullResult
  /\ monthMarkers.pc # "loop"
  /\ monthMarkers' = [ current |-> firstOfMonth(timeZone, metrics.startDate),
                       pc |-> "loop",
                       markers |-> <<>> ]
  /\ UNCHANGED <<timelineVars, todayPosition, backendVars, middlewareVars, seedVars>>

\* (mutant) `current` is the caller's startDate object itself, not a new Date:
\* setMonth moves the window start of the metrics
MonthMarkerStep_Aliased ==
  /\ monthMarkers.pc = "loop"
  /\ monthMarkers' =
       IF monthMarkers.current <= metrics.endDate
       THEN [ current |-> nextMonth(timeZone, monthMarkers.current),
              pc |-> "loop",
              markers |-> Append(monthMarkers.markers,
                                 monthMarker(timeZone, monthMarkers.current, metrics)) ]
       ELSE [monthMarkers EXCEPT !.pc = "done"]
  /\ metrics' = [metrics EXCEPT !.startDate = monthMarkers'.current]
  /\ UNCHANGED <<phases, containerWidth, timeZone, laneAssignments, position, view,
                 todayPosition, backendVars, middlewareVars, seedVars>>

\* one test of the while condition, and one pass through the body if it holds
MonthMarkerStep ==
  /\ monthMarkers.pc = "loop"
  /\ monthMarkers' =
       IF monthMarkers.current <= metrics.endDate
       THEN [ current |-> nextMonth(timeZone, monthMarkers.current),
              pc |-> "loop",
              markers |-> Append(monthMarkers.markers,
                                 monthMarker(timeZone, monthMarkers.current, metrics)) ]
       ELSE [monthMarkers EXCEPT !.pc = "done"]
  /\ UNCHANGED <<timelineVars, todayPosition, backendVars, middlewareVars, seedVars>>

NextAxis ==
  \/ CalculateTimelineMetrics
  \/ \E now \in Nows : GetTodayPosition(now)
  \/ GenerateMonthMarkers
  \/ MonthMarkerStep

\* the loop of generateMonthMarkers is synchronous: once entered it runs on
SpecAxis == InitAxis /\ [][NextAxis]_vars /\ WF_vars(MonthMarkerStep)

\* ---- the five timeline functions, called in any order on one list
NextFunctions ==
  \/ CalculateTimelineMetrics
  \/ \E i \in 1..Len(phases) : CalculatePhasePosition(i)
  \/ AssignPhasesToLanes
  \/ GenerateMonthMarkers
  \/ MonthMarkerStep
  \/ \E now \in Nows : GetTodayPosition(now)

SpecFunctions == InitAxis /\ [][NextFunctions]_vars

\* ---- the component under resize
\* the widths a ResizeObserver entry reports (contentRect.width)
Widths == {0, 640, DefaultContainerWidth}

\* one run of the component function with the given containerWidth state:
\* the metrics and lanes it computes on the way and what it returns
renderWith(width) ==
  LET phasesWithDates == filterPhasesWithDates(phases)
      m == calculateTimelineMetrics(phasesWithDates, width, timeZone)
  IN /\ metrics' = m
     /\ laneAssignments' =
          IF m = NullResult \/ Len(phasesWithDates) = 0 THEN laneAssignments
          ELSE assignPhasesToLanes(phasesWithDates)
     /\ view' = PhaseGanttTimeline(phases, width, timeZone)

\* the first render: containerWidth is the initial state of useState
Mount ==
  /\ view = NotCalled
  /\ renderWith(containerWidth)
  /\ UNCHANGED <<phases, containerWidth, timeZone, position, axisVars, backendVars, middlewareVars, seedVars>>

\* the ResizeObserver callback: setContainerWidth(width), and the render that
\* follows; the observer is attached only if the first render produced the
\* timeline body (containerRef.current is set)
Resize(width) ==
  /\ view # NotCalled
  /\ view.kind = "Timeline"
  /\ containerWidth' = width
  /\ renderWith(width)
  /\ UNCHANGED <<phases, timeZone, position, axisVars, backendVars, middlewareVars, seedVars>>

NextResize ==
  \/ Mount
  \/ \E width \in Widths : Resize(width)

SpecResize == Init /\ [][NextResize]_vars

\* ---- the backend: the controllers of /api/projects
\* the timeline is not in use
TimelineIdle ==
  /\ phases = <<>>
  /\ containerWidth = DefaultContainerWidth
  /\ timeZone = UTCZone
  /\ metrics = NotCalled
  /\ laneAssignments = NotCalled
  /\ position = NotCalled
  /\ view = NotCalled
  /\ todayPosition = NotCalled
  /\ monthMarkers = IdleMarkers

\* the database after the seed script ran: a project with a dated phase
Seeded ==
  /\ projects = [id \in 1..MaxProjects |-> IF id = 1 THEN ProjectRow("a") ELSE NoProject]
  /\ dbPhases = [id \in 1..MaxStoredPhases |->
                   IF id = 1 THEN PhaseRow(1, 0, MaxDay, 1) ELSE NoPhase]
  /\ allocated = [phases |-> 1, projects |-> 1]
  /\ inflight = [s \in 1..MaxInFlight |-> Idle]
  /\ received = 0
  /\ lastResponse = NoResponse

InitBackend == TimelineIdle /\ MiddlewareIdle /\ SeedIdle /\ (BackendIdle \/ Seeded)

\* what a client may send in a phase body
BodyDates == {UNDEF, NULL, BAD} \cup (0..MaxDay)
BodyOrders == {UNDEF, 0, 1}
Slots == 1..MaxInFlight
InFlight(kind) == Cardinality({s \in Slots : inflight[s].kind = kind})

\* validateRequest(schema) of the route
validateRequest(req) ==
  CASE req.kind = "addPhase" -> createPhaseSchema(req.body)
    [] req.kind = "updatePhase" -> updatePhaseSchema(req.body)
    [] OTHER -> TRUE

\* the tables hold at most MaxProjects and MaxStoredPhases rows ever
WithinTables(req) ==
  /\ req.kind = "createProject" => allocated.projects + InFlight("createProject") < MaxProjects
  /\ req.kind = "addPhase" => allocated.phases + InFlight("addPhase") < MaxStoredPhases

Respond(s, status, error) ==
  /\ lastResponse' = Response(status, error)
  /\ inflight' = [inflight EXCEPT ![s] = Idle]

Goto(s, pc) == inflight' = [inflight EXCEPT ![s].pc = pc]

\* a request passes validateRequest and its controller starts
Receive(s, req) ==
  /\ received < MaxRequests
  /\ inflight[s] = Idle
  /\ WithinTables(req)
  /\ validateRequest(req)
  /\ inflight' = [inflight EXCEPT ![s] = req]
  /\ received' = received + 1
  /\ UNCHANGED <<projects, dbPhases, allocated, lastResponse, timelineVars, axisVars, middlewareVars, seedVars>>

\* a request fails validateRequest: BadRequestError, the controller never runs
Reject(req) ==
  /\ received < MaxRequests
  /\ ~ validateRequest(req)
  /\ lastResponse' = Response(400, "Validation failed")
  /\ received' = received + 1
  /\ UNCHANGED <<projects, dbPhases, allocated, inflight, timelineVars, axisVars, middlewareVars, seedVars>>

\* createProject: await createProjectQuery(projectData); 201
CreateProject(s) ==
  /\ inflight[s].kind = "createProject"
  /\ projects' = createProjectQuery(projects, allocated.projects + 1, inflight[s].body)
  /\ allocated' = [allocated EXCEPT !.projects = @ + 1]
  /\ Respond(s, 201, "")
  /\ UNCHANGED <<dbPhases, received, timelineVars, axisVars, middlewareVars, seedVars>>

\* updateProject, deleteProject, addPhase: await projectExists(id), throw if not
ProjectCheck(s) ==
  /\ inflight[s].kind \in {"updateProject", "deleteProject", "addPhase"}
  /\ inflight[s].pc = "start"
  /\ IF projectExists(projects, inflight[s].id)
     THEN /\ inflight' = [inflight EXCEPT
                 ![s].pc = IF inflight[s].kind # "addPhase" THEN "write"
                           ELSE IF inflight[s].body.order = UNDEF \/ inflight[s].body.order = 0
                                THEN "read" ELSE "insert",
                 ![s].order = IF inflight[s].kind = "addPhase" THEN inflight[s].body.order ELSE 0]
          /\ UNCHANGED lastResponse
     ELSE Respond(s, 404, "Project not found")
  /\ UNCHANGED <<projects, dbPhases, allocated, received, timelineVars, axisVars, middlewareVars, seedVars>>

\* updateProject: await updateProjectQuery(id, updateData); 200
UpdateProjectWrite(s) ==
  /\ inflight[s].kind = "updateProject"
  /\ inflight[s].pc = "write"
  /\ projects' = updateProjectQuery(projects, inflight[s].id, inflight[s].body)
  /\ Respond(s, 200, "")
  /\ UNCHANGED <<dbPhases, allocated, received, timelineVars, axisVars, middlewareVars, seedVars>>

\* deleteProject: await deleteProjectQuery(id), the phases cascade; 200
DeleteProjectWrite(s) ==
  /\ inflight[s].kind = "deleteProject"
  /\ inflight[s].pc = "write"
  /\ projects' = deleteProjectQuery(projects, inflight[s].id)
  /\ dbPhases' = cascade(dbPhases, inflight[s].id)
  /\ Respond(s, 200, "")
  /\ UNCHANGED <<allocated, received, timelineVars, axisVars, middlewareVars, seedVars>>

\* createPhase: order undefined or 0, await getPhasesByProjectId(projectId)
AddPhaseReadOrder(s) ==
  /\ inflight[s].kind = "addPhase"
  /\ inflight[s].pc = "read"
  /\ inflight' = [inflight EXCEPT
       ![s].order = orderToStore(inflight[s].body.order, ordersOf(dbPhases, inflight[s].id)),
       ![s].pc = "insert"]
  /\ UNCHANGED <<projects, dbPhases, allocated, received, lastResponse, timelineVars, axisVars, middlewareVars, seedVars>>

\* createPhase: await db.insert(phases); 201, or the insert fails and the
\* error handler answers 500
AddPhaseInsert(s) ==
  /\ inflight[s].kind = "addPhase"
  /\ inflight[s].pc = "insert"
  /\ IF foreignKeyHolds(projects, inflight[s].id)
     THEN /\ dbPhases' = insertPhase(dbPhases, allocated.phases + 1, inflight[s].id,
                                     inflight[s].body, inflight[s].order)
          /\ allocated' = [allocated EXCEPT !.phases = @ + 1]
          /\ Respond(s, 201, "")
     ELSE /\ UNCHANGED <<dbPhases, allocated>>
          /\ Respond(s, 500, "Internal server error")
  /\ UNCHANGED <<projects, received, timelineVars, axisVars, middlewareVars, seedVars>>

\* updatePhase, deletePhase: await getPhaseByIdAndProjectId(phaseId, projectId), throw if null
PhaseCheck(s) ==
  /\ inflight[s].kind \in {"updatePhase", "deletePhase"}
  /\ inflight[s].pc = "start"
  /\ IF getPhaseByIdAndProjectId(dbPhases, inflight[s].phaseId, inflight[s].id) # NullResult
     THEN Goto(s, "write") /\ UNCHANGED lastResponse
     ELSE Respond(s, 404, "Phase not found")
  /\ UNCHANGED <<projects, dbPhases, allocated, received, timelineVars, axisVars, middlewareVars, seedVars>>

\* updatePhase: await updatePhaseQuery(phaseId, updateData); 200
UpdatePhaseWrite(s) ==
  /\ inflight[s].kind = "updatePhase"
  /\ inflight[s].pc = "write"
  /\ dbPhases' = updatePhaseQuery(dbPhases, inflight[s].phaseId, inflight[s].body)
  /\ Respond(s, 200, "")
  /\ UNCHANGED <<projects, allocated, received, timelineVars, axisVars, middlewareVars, seedVars>>

\* deletePhase: await deletePhaseQuery(phaseId); 200
DeletePhaseWrite(s) ==
  /\ inflight[s].kind = "deletePhase"
  /\ inflight[s].pc = "write"
  /\ dbPhases' = deletePhaseQuery(dbPhases, inflight[s].phaseId)
  /\ Respond(s, 200, "")
  /\ UNCHANGED <<projects, allocated, received, timelineVars, axisVars, middlewareVars, seedVars>>

\* a request arrives at its route: it passes validateRequest and a handler
\* starts, or it fails and is answered 400
Arrives(req) ==
  \/ \E s \in Slots : Receive(s, req)
  \/ Reject(req)

NextBackend ==
  \/ \E t \in Titles, s \in Slots :
       Receive(s, Request("createProject", UnknownId, UnknownId, ProjectBody(t)))
  \/ \E id \in 0..allocated.projects :
       \/ \E t \in Titles, s \in Slots :
            Receive(s, Request("updateProject", id, UnknownId, ProjectBody(t)))
       \/ \E s \in Slots : Receive(s, Request("deleteProject", id, UnknownId, NoBody))
       \/ \E sd \in BodyDates, ed \in BodyDates, o \in BodyOrders :
            Arrives(Request("addPhase", id, UnknownId, PhaseBody(sd, ed, o)))
       \/ \E p \in 0..allocated.phases :
            \/ \E sd \in BodyDates, ed \in BodyDates, o \in BodyOrders :
                 Arrives(Request("updatePhase", id, p, PhaseBody(sd, ed, o)))
            \/ \E s \in Slots : Receive(s, Request("deletePhase", id, p, NoBody))
  \/ \E s \in Slots :
       \/ CreateProject(s)
       \/ ProjectCheck(s)
       \/ UpdateProjectWrite(s)
       \/ DeleteProjectWrite(s)
       \/ AddPhaseReadOrder(s)
       \/ AddPhaseInsert(s)
       \/ PhaseCheck(s)
       \/ UpdatePhaseWrite(s)
       \/ DeletePhaseWrite(s)

SpecBackend == InitBackend /\ [][NextBackend]_vars

\* ---- the backend, from a project that has no phase yet
\* the database after one POST /api/projects
ProjectCreated ==
  /\ projects = [id \in 1..MaxProjects |-> IF id = 1 THEN ProjectRow("a") ELSE NoProject]
  /\ dbPhases = [id \in 1..MaxStoredPhases |-> NoPhase]
  /\ allocated = [phases |-> 0, projects |-> 1]
  /\ inflight = [s \in 1..MaxInFlight |-> Idle]
  /\ received = 0
  /\ lastResponse = NoResponse

InitCreatePhase == TimelineIdle /\ MiddlewareIdle /\ SeedIdle /\ ProjectCreated

SpecCreatePhase == InitCreatePhase /\ [][NextBackend]_vars

\* ---- the handlers of a route, one request at a time
\* a request arrives at a route; `parse` is what the route's schema will do
\* with it
RequestArrives(route, parse) ==
  /\ pipeline.pc \in {"idle", "done"}
  /\ pipeline' = [PipelineIdle EXCEPT
                    !.route = route,
                    !.parse = IF Validated(route) THEN parse ELSE Accepts,
                    !.pc = IF Validated(route) THEN "validate" ELSE "controller"]
  /\ UNCHANGED <<timelineVars, axisVars, backendVars, seedVars>>

\* validateRequest(schema) runs
ValidateRequest ==
  /\ pipeline.pc = "validate"
  /\ LET r == validateRequestMiddleware(pipeline.parse) IN
       pipeline' = [pipeline EXCEPT
                      !.validateNext = r.nextCalls,
                      !.thrown = r.thrown,
                      !.error = errorOf(r.nextCalls, r.thrown),
                      !.pc = afterHandler(r.nextCalls, r.thrown, "controller")]
  /\ UNCHANGED <<timelineVars, axisVars, backendVars, seedVars>>

\* asyncHandler(controller) runs: it calls the controller, whose promise is pending
ControllerStarts ==
  /\ pipeline.pc = "controller"
  /\ pipeline' = [pipeline EXCEPT !.controllerRuns = @ + 1, !.pc = "pending"]
  /\ UNCHANGED <<timelineVars, axisVars, backendVars, seedVars>>

\* the controller's promise settles: a controller that resolves has sent its
\* response; the catch of asyncHandler runs
ControllerSettles(settled) ==
  /\ pipeline.pc = "pending"
  /\ LET calls == asyncHandler(settled) IN
       pipeline' = [pipeline EXCEPT
                      !.settled = settled,
                      !.handlerNext = calls,
                      !.status = IF settled.kind = "resolves" THEN 200 ELSE @,
                      !.error = errorOf(calls, NoError),
                      !.pc = afterHandler(calls, NoError, "done")]
  /\ UNCHANGED <<timelineVars, axisVars, backendVars, seedVars>>

\* errorHandler answers
ErrorHandler ==
  /\ pipeline.pc = "error"
  /\ pipeline' = [pipeline EXCEPT !.status = errorHandler(pipeline.error), !.pc = "done"]
  /\ UNCHANGED <<timelineVars, axisVars, backendVars, seedVars>>

InitMiddleware == TimelineIdle /\ BackendIdle /\ MiddlewareIdle /\ SeedIdle

NextMiddleware ==
  \/ \E route \in Routes, parse \in ParseResults : RequestArrives(route, parse)
  \/ ValidateRequest
  \/ ControllerStarts
  \/ \E settled \in Settlements : ControllerSettles(settled)
  \/ ErrorHandler

SpecMiddleware == InitMiddleware /\ [][NextMiddleware]_vars

\* ---- the seed script, run again and again
\* the database before the first run: empty, or holding a project that was
\* created through the API, with a phase or without; the tables have room for
\* the rows of MaxSeedRuns runs on top of that
InitSeed ==
  /\ TimelineIdle
  /\ MiddlewareIdle
  /\ SeedIdle
  /\ inflight = [s \in 1..MaxInFlight |-> Idle]
  /\ received = 0
  /\ lastResponse = NoResponse
  /\ \E stored \in {"none", "project", "phase"}, t \in Titles :
       /\ projects = [id \in 1..(MaxSeedRuns * Len(seedProjects) + 1) |->
                        IF id = 1 /\ stored # "none" THEN ProjectRow(t) ELSE NoProject]
       /\ dbPhases = [id \in 1..(MaxSeedRuns * SeedPhaseCount + 1) |->
                        IF id = 1 /\ stored = "phase" THEN PhaseRow(1, 0, MaxDay, 1) ELSE NoPhase]
       /\ allocated = [phases |-> IF stored = "phase" THEN 1 ELSE 0,
                       projects |-> IF stored = "none" THEN 0 ELSE 1]

\* the script ends: finally closeDatabase(), after a return or process.exit(1)
seedEnds(how) ==
  [SeedScriptIdle EXCEPT !.runs = seed.runs + (IF how = "returns" THEN 1 ELSE 0),
                         !.exits = seed.exits + (IF how = "exits" THEN 1 ELSE 0)]

\* the script is started (runs are sequential)
SeedStart ==
  /\ seed.pc = "idle"
  /\ seed.runs + seed.exits < MaxSeedRuns
  /\ seed' = [seed EXCEPT !.pc = "check"]
  /\ UNCHANGED <<timelineVars, axisVars, backendVars, middlewareVars>>

\* await db.select().from(projects).limit(1): skip the seed if a project is stored
SeedCheck ==
  /\ seed.pc = "check"
  /\ seed' = IF existingProjects(projects) # {} THEN seedEnds("returns")
             ELSE [seed EXCEPT !.pc = "project", !.i = 1]
  /\ UNCHANGED <<timelineVars, axisVars, backendVars, middlewareVars>>

\* the for loop over seedProjects: await db.insert(projects).values(project)
SeedInsertProject ==
  /\ seed.pc = "project"
  /\ IF seed.i > Len(seedProjects)
     THEN /\ seed' = seedEnds("returns")
          /\ UNCHANGED <<projects, allocated>>
     ELSE /\ projects' = createProjectQuery(projects, allocated.projects + 1,
                                            [title |-> seedProjects[seed.i]])
          /\ allocated' = [allocated EXCEPT !.projects = @ + 1]
          /\ seed' = IF seedPhases[seed.i] > 0
                     THEN [seed EXCEPT !.pc = "phase", !.j = 1, !.projectId = allocated.projects + 1]
                     ELSE [seed EXCEPT !.i = @ + 1]
  /\ UNCHANGED <<dbPhases, inflight, received, lastResponse, timelineVars, axisVars, middlewareVars>>

\* the for loop over seedPhases[i]: await db.insert(phases).values({projectId, ...phase})
SeedInsertPhase ==
  /\ seed.pc = "phase"
  /\ dbPhases' = insertPhase(dbPhases, allocated.phases + 1, seed.projectId,
                             [startDate |-> 0, endDate |-> MaxDay], seed.j)
  /\ allocated' = [allocated EXCEPT !.phases = @ + 1]
  /\ seed' = IF seed.j < seedPhases[seed.i] THEN [seed EXCEPT !.j = @ + 1]
             ELSE [seed EXCEPT !.pc = "project", !.i = @ + 1, !.j = 0]
  /\ UNCHANGED <<projects, inflight, received, lastResponse, timelineVars, axisVars, middlewareVars>>

\* a query of the run rejects: catch, process.exit(1)
SeedFails ==
  /\ seed.pc \in {"check", "project", "phase"}
  /\ seed' = seedEnds("exits")
  /\ UNCHANGED <<timelineVars, axisVars, backendVars, middlewareVars>>

NextSeed ==
  \/ SeedStart
  \/ SeedCheck
  \/ SeedInsertProject
  \/ SeedInsertPhase
  \/ SeedFails

SpecSeed == InitSeed /\ [][NextSeed]_vars

\* =================================================================== claims
\* What the specification calls a schedulable phase, stated on the date
\* fields themselves: both dates are calendar days and start <= end.
IsDay(d) == d >= 0
IsSchedulable(phase) ==
  IsDay(phase.startDate) /\ IsDay(phase.endDate) /\ phase.startDate <= phase.endDate
Indices == 1..Len(phases)
SchedulableIdx == {i \in Indices : IsSchedulable(phases[i])}
RemoveUnschedulable(ps) == SelectSeq(ps, IsSchedulable)
LanesCalled == laneAssignments # NotCalled
MetricsCalled == metrics # NotCalled
HasLane(i) == phases[i].id \in DOMAIN laneAssignments.map
LaneOf(i) == laneAssignments.map[phases[i].id]
LanesUsed == {laneAssignments.map[k] : k \in DOMAIN laneAssignments.map}
EarliestStart == CHOOSE d \in {phases[i].startDate : i \in SchedulableIdx} :
                   \A i \in SchedulableIdx : d <= phases[i].startDate
LatestEnd == CHOOSE d \in {phases[i].endDate : i \in SchedulableIdx} :
               \A i \in SchedulableIdx : d >= phases[i].endDate
Hundred == Rat(100, 1)
Zero == Rat(0, 1)

\* ---- C1 ---------------------------------------------------------------
\* C1: any two distinct schedulable phases that assignPhasesToLanes puts in
\* the same lane have non-overlapping date ranges: the end of one is <= the
\* start of the other.
C1_LaneNonOverlap ==
  LanesCalled =>
    \A i, j \in SchedulableIdx :
      (i # j /\ HasLane(i) /\ HasLane(j) /\ LaneOf(i) = LaneOf(j)) =>
        \/ phases[i].endDate <= phases[j].startDate
        \/ phases[j].endDate <= phases[i].startDate

\* two schedulable phases share a lane, one of which is not a single day
C1_Witness ==
  /\ LanesCalled
  /\ \E i, j \in SchedulableIdx :
       /\ i # j /\ HasLane(i) /\ HasLane(j) /\ LaneOf(i) = LaneOf(j)
       /\ phases[i].startDate < phases[i].endDate

\* ---- C2 ---------------------------------------------------------------
\* two ranges only touch: the one that starts first ends on the day the
\* other starts
OnlyTouch(i, j) ==
  \/ phases[i].startDate < phases[j].startDate /\ phases[i].endDate = phases[j].startDate
  \/ phases[j].startDate < phases[i].startDate /\ phases[j].endDate = phases[i].startDate
\* overlap with touching ranges counted as apart: the ranges share a day and
\* do not only touch
OverlapTouchingApart(i, j) ==
  /\ phases[i].startDate <= phases[j].endDate
  /\ phases[j].startDate <= phases[i].endDate
  /\ ~ OnlyTouch(i, j)
MutuallyOverlapping(S) == \A i, j \in S : i # j => OverlapTouchingApart(i, j)
MaxOverlapTouchingApart ==
  LET sizes == {Cardinality(S) : S \in {T \in SUBSET SchedulableIdx : MutuallyOverlapping(T)}}
  IN CHOOSE n \in sizes : \A m \in sizes : m <= n

\* the number of schedulable phases whose range, both ends included, holds day t
CoveringDay(t) ==
  Cardinality({i \in SchedulableIdx : phases[i].startDate <= t /\ t <= phases[i].endDate})
MaxOverlapClosed ==
  LET counts == {CoveringDay(t) : t \in Days}
  IN CHOOSE n \in counts : \A m \in counts : m <= n

\* C2 (as claimed): the number of distinct lanes used by assignPhasesToLanes
\* equals the maximum number of schedulable phases that overlap one another,
\* where two phases that only touch (one's end = the other's start) count as
\* non-overlapping.
C2_LaneMinimality_TouchingApart ==
  LanesCalled => Cardinality(LanesUsed) = MaxOverlapTouchingApart

\* C2 (amended): the number of distinct lanes used by assignPhasesToLanes
\* equals the maximum number of schedulable phases whose date ranges, both
\* end days included, contain a common day; a phase that starts on the day
\* another ends overlaps it.
C2_LaneMinimality_Closed ==
  LanesCalled => Cardinality(LanesUsed) = MaxOverlapClosed

\* three schedulable phases laid out in two lanes, one lane being reused
C2_Witness ==
  /\ LanesCalled
  /\ Cardinality(SchedulableIdx) = 3
  /\ Cardinality(LanesUsed) = 2
  /\ \E i, j \in SchedulableIdx : i # j /\ phases[i].endDate = phases[j].startDate

\* ---- C3 ---------------------------------------------------------------
PositionCalled == position # NotCalled
Positioned == PositionCalled /\ position.value # NullResult
PositionedPhase == phases[position.index]

\* C3: for every schedulable phase, the position computed by
\* calculatePhasePosition against the metrics computed by
\* calculateTimelineMetrics from the same list has leftPercent >= 0 and
\* leftPercent + widthPercent <= 100, also when widthPercent is the clamped
\* 2% minimum.
C3_Containment ==
  (Positioned /\ IsSchedulable(PositionedPhase)) =>
    /\ RatLeq(Zero, position.value.leftPercent)
    /\ RatLeq(RatAdd(position.value.leftPercent, position.value.widthPercent), Hundred)

\* ---- C4 ---------------------------------------------------------------
Rendered == view # NotCalled
BarLeft(b) == b.position.leftPercent
BarRight(b) == RatAdd(b.position.leftPercent, b.position.widthPercent)
\* the half-open extents [left, left + width) of two bars intersect
ExtentsIntersect(a, b) == RatLt(BarLeft(a), BarRight(b)) /\ RatLt(BarLeft(b), BarRight(a))

\* C4: no visual collision: the rendered horizontal extents
\* [leftPercent, leftPercent + widthPercent) of any two distinct schedulable
\* phases that share a lane do not intersect.
C4_NoVisualCollision ==
  Rendered =>
    \A i, j \in 1..Len(view.bars) :
      (i # j /\ view.bars[i].position.lane = view.bars[j].position.lane) =>
        ~ ExtentsIntersect(view.bars[i], view.bars[j])

\* ---- C5 ---------------------------------------------------------------
\* C5: calculatePhasePosition returns null for every phase that is not
\* individually schedulable (a null or unparsable start or end date, or an
\* inverted range end < start).
C5_NullForUnschedulable ==
  (PositionCalled /\ ~ IsSchedulable(PositionedPhase)) => position.value = NullResult

\* ---- C6 ---------------------------------------------------------------
\* C6: unschedulable phases never influence metrics or lanes: the results of
\* calculateTimelineMetrics and assignPhasesToLanes on the list equal the
\* results on the list with the unschedulable phases removed, and the key
\* set of the lane map is exactly the set of ids of the schedulable phases.
C6_UnschedulableIgnored ==
  /\ MetricsCalled =>
       metrics = calculateTimelineMetrics(RemoveUnschedulable(phases), containerWidth, timeZone)
  /\ LanesCalled =>
       /\ laneAssignments = assignPhasesToLanes(RemoveUnschedulable(phases))
       /\ DOMAIN laneAssignments.map = {phases[i].id : i \in SchedulableIdx}

\* both results are there for a list that mixes an inverted phase, a phase
\* with a missing date and a schedulable phase
C6_Witness ==
  /\ MetricsCalled /\ LanesCalled
  /\ SchedulableIdx # {}
  /\ \E i \in Indices : IsDay(phases[i].startDate) /\ IsDay(phases[i].endDate)
                        /\ phases[i].endDate < phases[i].startDate
  /\ \E i \in Indices : ~ IsDay(phases[i].startDate)

\* ---- C7 ---------------------------------------------------------------
\* C7: for a list with at least one schedulable phase, windowStart is
\* exactly 7 days before the earliest schedulable start, windowEnd exactly 7
\* days after the latest schedulable end, totalDays is the day count between
\* them, so totalDays = (latestEnd - earliestStart) + 14, never 0.
\* (EarliestStart and LatestEnd are day numbers, the window bounds instants.)
C7_Padding ==
  (MetricsCalled /\ SchedulableIdx # {}) =>
    /\ metrics # NullResult
    /\ metrics.startDate = (EarliestStart - 7) * 24
    /\ metrics.endDate = (LatestEnd + 7) * 24
    /\ metrics.totalDays * 24 = metrics.endDate - metrics.startDate
    /\ metrics.totalDays = (LatestEnd - EarliestStart) + 14
    /\ metrics.totalDays # 0

\* ---- C8 ---------------------------------------------------------------
\* C8: calculateTimelineMetrics returns null if and only if the input has no
\* schedulable phase (empty list or all phases unschedulable), and then
\* assignPhasesToLanes returns an empty map.
C8_NullIffNothingSchedulable ==
  /\ MetricsCalled => (metrics = NullResult <=> SchedulableIdx = {})
  /\ (LanesCalled /\ SchedulableIdx = {}) => DOMAIN laneAssignments.map = {}

\* null metrics and an empty lane map for a non-empty list of unschedulable phases
C8_Witness ==
  /\ MetricsCalled /\ LanesCalled
  /\ Len(phases) >= 2
  /\ SchedulableIdx = {}
  /\ metrics = NullResult
  /\ DOMAIN laneAssignments.map = {}

\* ---- C9 ---------------------------------------------------------------
\* the proportional width durationDays / totalDays * 100 of the positioned phase
ProportionalWidth ==
  LET days == PositionedPhase.endDate - PositionedPhase.startDate
  IN Rat((IF days < 1 THEN 1 ELSE days) * 100, metrics.totalDays)
Two == Rat(2, 1)

\* C9: for every schedulable phase widthPercent = max(proportional width, 2):
\* exactly 2 when the proportional width is below 2%, the proportional width
\* unchanged otherwise.
C9_MinimumWidth ==
  (Positioned /\ IsSchedulable(PositionedPhase)) =>
    /\ RatLt(ProportionalWidth, Two) => RatEq(position.value.widthPercent, Two)
    /\ ~ RatLt(ProportionalWidth, Two) => RatEq(position.value.widthPercent, ProportionalWidth)

\* a positioned schedulable phase whose proportional width is below 2%
C9_Witness ==
  /\ Positioned /\ IsSchedulable(PositionedPhase)
  /\ RatLt(ProportionalWidth, Two)

\* ---- C10 --------------------------------------------------------------
\* C10: a phase whose startDate equals its endDate is laid out with a
\* duration of 1 day, not 0: its width is max(1 / totalDays * 100, 2); and
\* every positioned phase has a strictly positive width.
C10_MinimumDuration ==
  Positioned =>
    /\ RatLt(Zero, position.value.widthPercent)
    /\ PositionedPhase.startDate = PositionedPhase.endDate =>
         RatEq(position.value.widthPercent,
               IF 100 < 2 * metrics.totalDays THEN Two ELSE Rat(100, metrics.totalDays))

\* a positioned one-day phase in a window short enough for 1 day to be over 2%
C10_Witness ==
  /\ Positioned
  /\ PositionedPhase.startDate = PositionedPhase.endDate
  /\ 100 > 2 * metrics.totalDays

\* ---- C14 --------------------------------------------------------------
\* the number of entries of a rendered list that carry the id
CountBars(id) == Cardinality({k \in 1..Len(view.bars) : view.bars[k].phase.id = id})
CountListed(id) ==
  Cardinality({k \in 1..Len(view.phasesWithoutDates) : view.phasesWithoutDates[k].id = id})
BarOf(id) == view.bars[CHOOSE k \in 1..Len(view.bars) : view.bars[k].phase.id = id]

\* C14: in PhaseGanttTimeline every phase of a list with unique ids is
\* surfaced exactly once: a schedulable phase as one bar that carries a
\* position and the lane assignPhasesToLanes gives it, any other phase once in
\* the without-dates list, never both and never neither; when no phase is
\* schedulable no bar is drawn and every phase is listed as without dates.
C14_SurfacedExactlyOnce ==
  Rendered =>
    /\ \A i \in Indices :
         /\ CountBars(phases[i].id) + CountListed(phases[i].id) = 1
         /\ IsSchedulable(phases[i]) <=> CountBars(phases[i].id) = 1
         /\ IsSchedulable(phases[i]) =>
              /\ BarOf(phases[i].id).phase = phases[i]
              /\ BarOf(phases[i].id).position.lane =
                   assignPhasesToLanes(phases).map[phases[i].id]
    /\ Len(view.bars) + Len(view.phasesWithoutDates) = Len(phases)
    /\ SchedulableIdx = {} =>
         /\ view.bars = <<>>
         /\ view.phasesWithoutDates = phases

\* a rendered list with two bars in different lanes and a listed phase
C14_Witness ==
  /\ Rendered
  /\ Len(view.bars) = 2
  /\ view.bars[1].position.lane # view.bars[2].position.lane
  /\ Len(view.phasesWithoutDates) = 1

\* ---- C15 --------------------------------------------------------------
StoredPhaseIds == {p \in 1..MaxStoredPhases : dbPhases[p].exists}
StoredProjectIds == {id \in 1..MaxProjects : projects[id].exists}

\* C15: after any sequence of validated phase requests (POST checked by
\* createPhaseSchema, PUT checked by updatePhaseSchema) every stored phase
\* that has both a startDate and an endDate satisfies endDate >= startDate.
C15_StoredDatesOrdered ==
  \A p \in StoredPhaseIds :
    (IsDay(dbPhases[p].startDate) /\ IsDay(dbPhases[p].endDate)) =>
      dbPhases[p].endDate >= dbPhases[p].startDate

\* ---- C16 --------------------------------------------------------------
\* C16: after any sequence or interleaving of createProject, deleteProject,
\* addPhase and deletePhase requests every stored phase references a stored
\* project: deleting a project removes all its phases, and an addPhase that
\* races with the deleteProject of its project leaves no orphan phase.
C16_NoOrphanPhase ==
  \A p \in StoredPhaseIds : dbPhases[p].projectId \in StoredProjectIds

\* the race: the seeded project was deleted, its phase with it, after an
\* addPhase for it had passed projectExists; the insert was refused
C16_Witness ==
  /\ lastResponse = Response(500, "Internal server error")
  /\ allocated = [phases |-> 1, projects |-> 1]
  /\ StoredProjectIds = {}
  /\ StoredPhaseIds = {}

\* ---- C17 --------------------------------------------------------------
\* the handler in slot s takes a step
Steps(s) == inflight'[s] # inflight[s]
DatabaseUnchanged == projects' = projects /\ dbPhases' = dbPhases /\ allocated' = allocated

\* C17: updateProject, deleteProject and addPhase invoked with a project id
\* that does not exist fail with NotFoundError (404, 'Project not found')
\* and issue no write: the stored projects and phases are unchanged and the
\* only response sent is the 404.
C17_ProjectNotFound ==
  [][ \A s \in Slots :
        ( /\ inflight[s].kind \in {"updateProject", "deleteProject", "addPhase"}
          /\ inflight[s].pc = "start"
          /\ inflight[s].id \notin StoredProjectIds
          /\ Steps(s) )
        => /\ DatabaseUnchanged
           /\ inflight'[s] = Idle
           /\ lastResponse' = Response(404, "Project not found") ]_vars

\* a request for the seeded project answered 404 after the project was deleted
C17_Witness ==
  /\ lastResponse = Response(404, "Project not found")
  /\ allocated.projects = 1
  /\ StoredProjectIds = {}
  /\ received = 2
  /\ \A s \in Slots : inflight[s] = Idle

\* ---- C18 --------------------------------------------------------------
\* the phase the request names is stored and belongs to the project it names
NamesPhaseOfProject(req) ==
  /\ req.phaseId \in StoredPhaseIds
  /\ dbPhases[req.phaseId].projectId = req.id

EndsWhereStarts(i, j) == phases[i].endDate = phases[j].startDate
TouchingPairIsInput ==
  /\ LanesCalled
  /\ Len(phases) = 2
  /\ SchedulableIdx = {1, 2}
  /\ EndsWhereStarts(1, 2) \/ EndsWhereStarts(2, 1)

\* C19 (as stated): two schedulable phases where one ends exactly on the
\* date the other starts may share a lane: if such a pair is the whole input,
\* both phases get lane 0.
C19_TouchingShareLane ==
  TouchingPairIsInput => (LaneOf(1) = 0 /\ LaneOf(2) = 0)

\* C19 (amended): two schedulable phases where one ends exactly on the date
\* the other starts are treated as overlapping by assignPhasesToLanes and
\* never share a lane: if such a pair is the whole input, the phases get
\* lanes 0 and 1.
C19_TouchingSeparateLanes ==
  /\ LanesCalled =>
       \A i, j \in SchedulableIdx :
         (i # j /\ EndsWhereStarts(i, j)) => LaneOf(i) # LaneOf(j)
  /\ TouchingPairIsInput => {LaneOf(1), LaneOf(2)} = {0, 1}

\* the lanes of a pair that is the whole input, the first phase ending on
\* the day the second starts, both lasting more than a day apart
C19_Witness ==
  /\ TouchingPairIsInput
  /\ phases[1].startDate < phases[1].endDate
  /\ phases[1].endDate = phases[2].startDate

\* ---- C20 --------------------------------------------------------------
\* the processing order: ascending start date, input order among equal starts
ProcessedBefore(j, i) ==
  \/ phases[j].startDate < phases[i].startDate
  \/ phases[j].startDate = phases[i].startDate /\ j < i
Earlier(i) == {j \in SchedulableIdx : ProcessedBefore(j, i)}
LanesBefore(i) == {LaneOf(j) : j \in Earlier(i)}
\* the last phase placed in lane l before phase i is processed
LastPlaced(l, i) ==
  CHOOSE j \in Earlier(i) :
    /\ LaneOf(j) = l
    /\ \A k \in Earlier(i) : LaneOf(k) = l => (k = j \/ ProcessedBefore(k, j))
FreeLanes(i) ==
  {l \in LanesBefore(i) : phases[LastPlaced(l, i)].endDate < phases[i].startDate}
Lowest(S) == CHOOSE l \in S : \A m \in S : l <= m

\* C20: assignPhasesToLanes is first-fit in start order: each schedulable
\* phase gets the lowest-indexed lane whose last placed phase ends strictly
\* before the phase starts, and only when there is no such lane a new lane
\* whose index is the number of lanes in use; a freed lane is reused before
\* any higher lane.
C20_FirstFit ==
  LanesCalled =>
    \A i \in SchedulableIdx :
      /\ LanesBefore(i) = 0..(Cardinality(LanesBefore(i)) - 1)
      /\ LaneOf(i) = IF FreeLanes(i) # {} THEN Lowest(FreeLanes(i))
                     ELSE Cardinality(LanesBefore(i))

\* Scenario C: the third phase returns to lane 0 while lane 1 is in use
C20_Witness ==
  /\ LanesCalled
  /\ \E i, j, k \in SchedulableIdx :
       /\ ProcessedBefore(i, j) /\ ProcessedBefore(j, k)
       /\ LaneOf(i) = 0 /\ LaneOf(j) = 1 /\ LaneOf(k) = 0
       /\ phases[j].startDate <= phases[i].endDate
       /\ phases[k].startDate > phases[i].endDate

\* ---- C11 --------------------------------------------------------------
\* C11: determinism: for a fixed phase list and containerWidth every run of
\* calculateTimelineMetrics, calculatePhasePosition and assignPhasesToLanes
\* produces the same results, whatever state outside these inputs the run
\* finds (here the time zone of the environment the run is made in).
C11_Determinism ==
  /\ MetricsCalled =>
       \A tz \in TimeZones :
         calculateTimelineMetrics(phases, containerWidth, tz) = metrics
  /\ Positioned =>
       \A tz \in TimeZones :
         calculatePhasePosition(PositionedPhase,
                                calculateTimelineMetrics(phases, containerWidth, tz))
           = position.value
  /\ LanesCalled => assignPhasesToLanes(phases) = laneAssignments

\* ---- C12 --------------------------------------------------------------
TodayCalled == todayPosition # NotCalled
\* the instant at which the local day of `now` began
TodayMidnight ==
  CHOOSE t \in (todayPosition.now - HoursPerDay - 1)..todayPosition.now :
    /\ LocalTime(timeZone, t) % HoursPerDay = 0
    /\ LocalTime(timeZone, t) \div HoursPerDay =
         LocalTime(timeZone, todayPosition.now) \div HoursPerDay
TodayOutside == TodayMidnight < metrics.startDate \/ TodayMidnight > metrics.endDate

\* C12: getTodayPosition returns null exactly when today's date, truncated
\* to (local) midnight, is before windowStart or after windowEnd; otherwise it
\* returns daysBetween(windowStart, today) / totalDays * 100, which lies in
\* [0, 100].
C12_TodayPosition ==
  TodayCalled =>
    /\ todayPosition.value = NullResult <=> TodayOutside
    /\ ~ TodayOutside =>
         /\ RatEq(todayPosition.value.percent,
                  Rat(daysBetween(metrics.startDate, TodayMidnight) * 100, metrics.totalDays))
         /\ RatLeq(Zero, todayPosition.value.percent)
         /\ RatLeq(todayPosition.value.percent, Hundred)

\* a today marker strictly inside the window, asked for in the afternoon in
\* a zone that is not UTC
C12_Witness ==
  /\ TodayCalled
  /\ timeZone = FallBackZone
  /\ todayPosition.value # NullResult
  /\ RatLt(Zero, todayPosition.value.percent)
  /\ RatLt(todayPosition.value.percent, Hundred)

\* ---- C13 --------------------------------------------------------------
MarkersDone == monthMarkers.pc = "done"
\* the calendar month the instant lies in, on the local calendar
MonthContaining(t) ==
  CHOOSE k \in 1..(Len(MonthStarts) - 1) :
    /\ dateOf(MonthStarts[k]) <= LocalTime(timeZone, t)
    /\ LocalTime(timeZone, t) < dateOf(MonthStarts[k + 1])
MarkersRight ==
  LET first == MonthContaining(metrics.startDate)
      last == MonthContaining(metrics.endDate)
      ms == monthMarkers.markers
  IN /\ Len(ms) = last - first + 1
     /\ \A i \in 1..Len(ms) :
          /\ ms[i].label = first + i - 1
          /\ LocalTime(timeZone, ms[i].date) = dateOf(MonthStarts[first + i - 1])
          /\ RatEq(ms[i].position,
                   Rat(daysBetween(metrics.startDate, ms[i].date) * 100, metrics.totalDays))
     /\ \A i, j \in 1..Len(ms) : i < j => ms[i].date < ms[j].date

\* C13: generateMonthMarkers terminates for every window and returns, in
\* ascending date order, exactly one marker for each calendar month from the
\* month containing windowStart through the month containing windowEnd, each
\* dated the first day of its month (local midnight) with position
\* daysBetween(windowStart, markerDate) / totalDays * 100.
C13_MonthMarkers ==
  /\ [](MarkersDone => MarkersRight)
  /\ (monthMarkers.pc = "loop") ~> MarkersDone

\* the thirteen markers of a window that runs from October to October, the
\* first one lying before the window
C13_Witness ==
  /\ MarkersDone
  /\ Len(monthMarkers.markers) = 13
  /\ timeZone = FallBackZone
  /\ monthMarkers.markers[1].position.n < 0

\* ---- C21 --------------------------------------------------------------
\* C21: tie-break by input order: among schedulable phases with equal start
\* dates assignPhasesToLanes processes them in their order in the input list,
\* so a phase that appears earlier in the input always receives a strictly
\* lower lane than a later phase with the same start date.
C21_TieBreakByInputOrder ==
  LanesCalled =>
    \A i, j \in SchedulableIdx :
      (i < j /\ phases[i].startDate = phases[j].startDate) => LaneOf(i) < LaneOf(j)

\* two phases of the same start behind a phase that starts earlier and is
\* last in the input: they get lanes 1 and 2 in input order
C21_Witness ==
  /\ LanesCalled
  /\ SchedulableIdx = {1, 2, 3}
  /\ phases[1].startDate = phases[2].startDate
  /\ phases[3].startDate < phases[1].startDate
  /\ LaneOf(3) = 0 /\ LaneOf(1) = 1 /\ LaneOf(2) = 2

\* ---- C27 --------------------------------------------------------------
\* the schedulable phase that is processed first
FirstProcessed == CHOOSE i \in SchedulableIdx : Earlier(i) = {}

\* C27: lane indices have no gaps: the set of lanes assigned by
\* assignPhasesToLanes is exactly {0, ..., k-1} for some k <= the number of
\* schedulable phases, the first phase in sorted order gets lane 0, and
\* therefore every bar fits inside the component's
\* timelineHeight = (maxLane + 1) * LANE_HEIGHT.
C27_LanesHaveNoGaps ==
  /\ LanesCalled =>
       /\ LanesUsed = 0..(Cardinality(LanesUsed) - 1)
       /\ Cardinality(LanesUsed) <= Cardinality(SchedulableIdx)
       /\ SchedulableIdx # {} => LaneOf(FirstProcessed) = 0
  /\ Rendered =>
       \A k \in 1..Len(view.bars) :
         /\ 0 <= barTop(view.bars[k])
         /\ barTop(view.bars[k]) + barHeight(view.bars[k]) <= view.timelineHeight

\* three lanes are in use and the rendered bar of the highest one ends
\* inside the last lane of the timeline
C27_Witness ==
  /\ LanesCalled /\ Rendered
  /\ LanesUsed = {0, 1, 2}
  /\ \E k \in 1..Len(view.bars) :
       /\ view.bars[k].position.lane = 2
       /\ barTop(view.bars[k]) + barHeight(view.bars[k]) > 2 * LANE_HEIGHT

\* ---- C29 --------------------------------------------------------------
Orderings(n) == {f \in [1..n -> 1..n] : \A i, j \in 1..n : i # j => f[i] # f[j]}
Permuted(ps, f) == [i \in 1..Len(ps) |-> ps[f[i]]]
DistinctStarts ==
  \A i, j \in SchedulableIdx : i # j => phases[i].startDate # phases[j].startDate

\* C29: when all schedulable phases have pairwise distinct start dates,
\* assignPhasesToLanes returns the same id-to-lane map for every permutation
\* of the input list.
C29_PermutationInvariant ==
  (LanesCalled /\ DistinctStarts) =>
    \A f \in Orderings(Len(phases)) :
      assignPhasesToLanes(Permuted(phases, f)) = laneAssignments

\* three schedulable phases of distinct starts, listed latest start first,
\* that need two lanes
C29_Witness ==
  /\ LanesCalled /\ DistinctStarts
  /\ SchedulableIdx = {1, 2, 3}
  /\ phases[1].startDate > phases[2].startDate
  /\ phases[2].startDate > phases[3].startDate
  /\ LanesUsed = {0, 1}

\* ---- C28 --------------------------------------------------------------
\* the layout of a rendered bar: its phase, left edge, width and lane
Layout(bar) ==
  <<bar.phase, bar.position.leftPercent, bar.position.widthPercent, bar.position.lane>>
Layouts(v) == [k \in 1..Len(v.bars) |-> Layout(v.bars[k])]

\* C28: layout is independent of the container width: for a fixed phase
\* list, windowStart, windowEnd, totalDays, every phase's leftPercent and
\* widthPercent and every phase's lane are the same for every containerWidth
\* value; a resize event changes only containerWidth and pixelsPerDay in the
\* metrics.
C28_WidthIndependent ==
  /\ [](Rendered =>
          Layouts(view) = Layouts(PhaseGanttTimeline(phases, DefaultContainerWidth, timeZone)))
  /\ [][ (Rendered /\ containerWidth' # containerWidth) =>
           /\ phases' = phases
           /\ metrics' = [metrics EXCEPT
                            !.containerWidth = containerWidth',
                            !.pixelsPerDay = Rat(containerWidth', metrics.totalDays)]
           /\ laneAssignments' = laneAssignments
           /\ Layouts(view') = Layouts(view)
           /\ view'.timelineHeight = view.timelineHeight ]_vars

\* after a resize to 640 pixels: two bars in two lanes, laid out against
\* metrics that carry the new width
C28_Witness ==
  /\ Rendered
  /\ containerWidth = 640
  /\ metrics.containerWidth = 640
  /\ metrics.pixelsPerDay = Rat(640, metrics.totalDays)
  /\ Len(view.bars) = 2
  /\ view.bars[1].position.lane # view.bars[2].position.lane
  /\ RatLt(Zero, view.bars[1].position.leftPercent)

\* ---- C22 --------------------------------------------------------------
\* a function that is handed the metrics object returns in this step
MetricsPassedIn ==
  \/ position' # position
  \/ todayPosition' # todayPosition
  \/ monthMarkers' # monthMarkers

\* C22: no timeline function mutates its inputs: after
\* calculateTimelineMetrics, calculatePhasePosition, assignPhasesToLanes,
\* generateMonthMarkers or getTodayPosition returns, the caller's phase list
\* (its order and every phase's fields) and the metrics object passed in
\* (windowStart, windowEnd, totalDays) are unchanged.
C22_InputsNotMutated ==
  [][ /\ phases' = phases
      /\ MetricsPassedIn =>
           /\ metrics'.startDate = metrics.startDate
           /\ metrics'.endDate = metrics.endDate
           /\ metrics'.totalDays = metrics.totalDays ]_vars

\* all five functions have returned for a list that is not in start order,
\* the month loop having stepped `current` through thirteen months
C22_Witness ==
  /\ MetricsCalled /\ LanesCalled /\ Positioned /\ TodayCalled /\ MarkersDone
  /\ Len(monthMarkers.markers) = 13
  /\ SchedulableIdx = {1, 2}
  /\ phases[1].startDate > phases[2].startDate

\* ---- C23 --------------------------------------------------------------
\* the phases of a project that are stored, and the largest of their orders
PhasesOfProject(phs, projectId) ==
  {p \in 1..MaxStoredPhases : phs[p].exists /\ phs[p].projectId = projectId}
LargestOrder(phs, projectId) ==
  CHOOSE o \in {phs[p].order : p \in PhasesOfProject(phs, projectId)} :
    \A p \in PhasesOfProject(phs, projectId) : phs[p].order <= o
\* the caller leaves the order to createPhase
AutoOrder(req) == req.body.order = UNDEF \/ req.body.order = 0
\* the handler in slot s completes its insert in this step: the new row
Inserts(s) ==
  /\ inflight[s].kind = "addPhase"
  /\ inflight[s].pc = "insert"
  /\ Steps(s)
  /\ allocated'.phases = allocated.phases + 1
NewRow == dbPhases'[allocated'.phases]

\* C23: createPhase stores the caller's order when it is a non-zero number;
\* when order is undefined or 0 it stores max(order of the project's existing
\* phases) + 1, or 1 when the project has no phases (the existing phases
\* being those createPhase reads).
C23_StoredOrder ==
  [][ \A s \in Slots :
        /\ (inflight[s].kind = "addPhase" /\ inflight[s].pc = "read" /\ Steps(s)) =>
             /\ AutoOrder(inflight[s])
             /\ inflight'[s].order =
                  IF PhasesOfProject(dbPhases, inflight[s].id) = {} THEN 1
                  ELSE LargestOrder(dbPhases, inflight[s].id) + 1
        /\ Inserts(s) =>
             /\ NewRow.projectId = inflight[s].id
             /\ AutoOrder(inflight[s]) => NewRow.order = inflight[s].order
             /\ ~ AutoOrder(inflight[s]) => NewRow.order = inflight[s].body.order ]_vars

\* the project holds a phase stored with the order 1 its caller gave and a
\* phase whose order, 2, createPhase worked out
C23_Witness ==
  /\ PhasesOfProject(dbPhases, 1) = {1, 2}
  /\ dbPhases[1].order = 1
  /\ dbPhases[2].order = 2
  /\ lastResponse = Response(201, "")

\* ---- C30 --------------------------------------------------------------
\* C30: a phase created by createPhase with order undefined or 0 gets an
\* order strictly greater than the order of every other phase of the same
\* project stored when its insert completes, including when several
\* createPhase calls for the same project interleave between their read of
\* the existing phases and their insert (auto-assigned orders within a
\* project are never duplicated).
C30_AutoOrderIsLargest ==
  [][ \A s \in Slots :
        (Inserts(s) /\ AutoOrder(inflight[s])) =>
          \A p \in PhasesOfProject(dbPhases', inflight[s].id) :
            p # allocated'.phases => dbPhases'[p].order < NewRow.order ]_vars

\* ---- C24 --------------------------------------------------------------
\* C24: for a route handler wrapped by asyncHandler, next is called exactly
\* once, with the handler's error, when the handler's promise rejects
\* (including an error thrown inside an async handler), and next is never
\* called when the handler resolves.
C24_AsyncHandlerNext ==
  /\ pipeline.pc = "pending" => pipeline.handlerNext = <<>>
  /\ pipeline.settled.kind = "resolves" =>
       /\ pipeline.handlerNext = <<>>
       /\ pipeline.error = NoError
  /\ pipeline.settled.kind = "rejects" =>
       /\ pipeline.handlerNext = <<pipeline.settled.reason>>
       /\ pipeline.error = pipeline.settled.reason

\* the controller of PUT /:id/phases/:phaseId rejected with NotFoundError and
\* the error handler, reached through next, answered 404
C24_Witness ==
  /\ pipeline.route = "updatePhase"
  /\ pipeline.pc = "done"
  /\ pipeline.settled = Rejects(NotFoundError("Phase not found"))
  /\ Len(pipeline.handlerNext) = 1
  /\ pipeline.status = 404

\* ---- C25 --------------------------------------------------------------
\* validateRequest of the route has returned
ValidationDone == Validated(pipeline.route) /\ pipeline.pc \notin {"idle", "validate"}
\* next() with no argument is among the calls
CalledNextPlain(calls) == \E k \in 1..Len(calls) : calls[k] = NoError

\* C25: on every validated route the controller runs only after
\* validateRequest has called next() with no argument: validateRequest calls
\* next() with no argument exactly when the schema accepts {body, query,
\* params}; on a Zod validation failure it never calls next and raises
\* BadRequestError('Validation failed') with per-field details; on any other
\* error it calls next(error) once.
C25_ValidateBeforeController ==
  /\ (Validated(pipeline.route) /\ pipeline.controllerRuns > 0) =>
       pipeline.validateNext = <<NoError>>
  /\ pipeline.pc = "validate" => pipeline.controllerRuns = 0
  /\ ValidationDone =>
       /\ CalledNextPlain(pipeline.validateNext) <=> pipeline.parse.kind = "accepts"
       /\ pipeline.parse.kind = "accepts" => pipeline.thrown = NoError
       /\ pipeline.parse.kind = "zodError" =>
            /\ pipeline.validateNext = <<>>
            /\ pipeline.controllerRuns = 0
            /\ pipeline.thrown.name = "BadRequestError"
            /\ pipeline.thrown.message = "Validation failed"
            /\ \A i \in pipeline.parse.issues :
                 \E d \in pipeline.thrown.details :
                   d.field = i.path[2] /\ d.message = i.message
            /\ Cardinality(pipeline.thrown.details) = Cardinality(pipeline.parse.issues)
       /\ pipeline.parse.kind = "otherError" =>
            /\ pipeline.validateNext = <<pipeline.parse.error>>
            /\ pipeline.thrown = NoError
            /\ pipeline.controllerRuns = 0

\* a POST /:id/phases body with two bad fields was answered 400 with two
\* details and the controller never ran
C25_Witness ==
  /\ pipeline.route = "addPhase"
  /\ pipeline.pc = "done"
  /\ pipeline.parse.kind = "zodError"
  /\ Cardinality(pipeline.thrown.details) = 2
  /\ pipeline.controllerRuns = 0
  /\ pipeline.status = 400

\* ---- C26 --------------------------------------------------------------
StoredWithTitle(title) == {id \in DOMAIN projects : projects[id].exists /\ projects[id].title = title}
StoredSeedPhase(i, j) ==
  {p \in DOMAIN dbPhases :
     /\ dbPhases[p].exists
     /\ dbPhases[p].projectId \in StoredWithTitle(seedProjects[i])
     /\ dbPhases[p].order = j}
\* the database held no project when the first run started: every project it
\* holds is a seed project (the script deletes nothing)
StartedEmpty == \A t \in Titles : StoredWithTitle(t) = {}
SeedStoredOnce ==
  /\ \A i \in 1..Len(seedProjects) :
       /\ Cardinality(StoredWithTitle(seedProjects[i])) = 1
       /\ \A j \in 1..seedPhases[i] : Cardinality(StoredSeedPhase(i, j)) = 1
  /\ Cardinality({id \in DOMAIN projects : projects[id].exists}) = Len(seedProjects)
  /\ Cardinality({p \in DOMAIN dbPhases : dbPhases[p].exists}) = SeedPhaseCount
CompleteRunsOnly == seed.pc = "idle" /\ seed.exits = 0 /\ seed.runs >= 1

\* C26: the seed script is idempotent under repeated sequential runs: a run
\* that finds at least one stored project inserts nothing, so after any number
\* of complete runs on an initially empty database each seed project and each
\* seed phase is stored exactly once.
C26_SeedIdempotent ==
  /\ []((StartedEmpty /\ CompleteRunsOnly) => SeedStoredOnce)
  /\ [][ ( /\ seed.pc = "check"
           /\ seed'.exits = seed.exits
           /\ seed' # seed
           /\ \E id \in DOMAIN projects : projects[id].exists )
         => /\ seed'.pc = "idle"
            /\ projects' = projects
            /\ dbPhases' = dbPhases ]_vars

\* three complete runs on a database that was empty
C26_Witness ==
  /\ StartedEmpty
  /\ CompleteRunsOnly
  /\ seed.runs = MaxSeedRuns
  /\ SeedStoredOnce

====
